---- MODULE Spec2Model ----
(***************************************************************************)
(* Footing / combined-footing design engine of civil_ai (backend/*.py).    *)
(*                                                                         *)
(* The Python code computes with IEEE doubles.  The model computes with    *)
(* fixed-point integers: every quantity is an integer count of a unit that *)
(* is finer than the resolution the code reports it at, and every          *)
(* operation rounds its exact result to the nearest unit (as a double      *)
(* operation rounds to the nearest double).  round(x, n) of the code is    *)
(* RoundTo, which really drops the extra digits.                           *)
(*                                                                         *)
(* Units of the inputs                                                     *)
(*   Pu_kN, P1_kN, P2_kN        1e-6 kN (= 1 mN)                           *)
(*   soil_allow_kN_per_m2       1 kN/m2                                    *)
(*   *_mm (depth, cover, ...)   1 mm                                       *)
(*   eccentricity_*_m           1e-3 m                                     *)
(*   assumed_side_m             1e-4 m                                     *)
(*   phi, alpha_factor          1e-2                                       *)
(*   fc_MPa, fy_MPa             1 MPa                                      *)
(* Units of the internal values are given where they are computed.         *)
(***************************************************************************)
EXTENDS Integers, Sequences, FiniteSets, TLC

VARIABLES call, ret, files, clock, ncalls, prev

vars == <<call, ret, files, clock, ncalls, prev>>

----------------------------------------------------------------------------
(* Arithmetic helpers (Python float operators and math functions).         *)

\* Python None (Optional[float] = None)
None == -1000000000

\* A local assigned once: Body of the value, which is computed once
Bind(value, Body(_)) == CHOOSE r \in {Body(v) : v \in {value}} : TRUE

Abs(x) == IF x < 0 THEN -x ELSE x
Max(a, b) == IF a >= b THEN a ELSE b
Min(a, b) == IF a <= b THEN a ELSE b

\* x + y = q*c + r with 0 <= r < c, for 0 <= x, y < c, without forming x + y
AddQR(x, y, c) ==
    IF x >= c - y THEN [q |-> 1, r |-> x - (c - y)] ELSE [q |-> 0, r |-> x + y]

\* a*b = q*c + r by binary long multiplication, for any c > 0
RECURSIVE MulDivBinary(_, _, _)
MulDivBinary(a, b, c) ==
    IF b = 0 THEN [q |-> 0, r |-> 0]
    ELSE Bind(MulDivBinary(a, b \div 2, c), LAMBDA h :
         Bind(AddQR(h.r, h.r, c), LAMBDA dbl :
         Bind(AddQR(dbl.r, IF b % 2 = 1 THEN a % c ELSE 0, c), LAMBDA add :
         [q |-> 2 * h.q + dbl.q + (IF b % 2 = 1 THEN a \div c ELSE 0) + add.q,
          r |-> add.r])))

\* a*b = q*c + r by long multiplication in radix B, for c * B <= 2^30
RECURSIVE MulDivRadix(_, _, _, _)
MulDivRadix(a, b, c, B) ==
    IF b = 0 THEN [q |-> 0, r |-> 0]
    ELSE Bind(MulDivRadix(a, b \div B, c, B), LAMBDA h :
         Bind(h.r * B + (a % c) * (b % B), LAMBDA t :
         [q |-> h.q * B + (a \div c) * (b % B) + (t \div c), r |-> t % c]))

\* The largest radix of 32, 1024, 32768, 1048576 with c * B <= 2^30, or 0
Radix(c) ==
    IF c <= 1024 THEN 1048576
    ELSE IF c <= 32768 THEN 32768
    ELSE IF c <= 1048576 THEN 1024
    ELSE IF c <= 33554432 THEN 32
    ELSE 0

\* a*b = q*c + r with 0 <= r < c, for a, b >= 0 and c > 0, without forming a*b
MulDivQR(a, b, c) ==
    IF Radix(c) > 0 THEN MulDivRadix(Max(a, b), Min(a, b), c, Radix(c))
    ELSE MulDivBinary(Max(a, b), Min(a, b), c)

\* a*b/c rounded to the nearest integer (float multiply/divide), c > 0
MulDivRound(a, b, c) ==
    Bind(MulDivQR(Abs(a), Abs(b), c), LAMBDA m :
    Bind(m.q + (IF m.r >= c - m.r THEN 1 ELSE 0), LAMBDA n :
    IF (a < 0) = (b < 0) THEN n ELSE -n))

\* a*b/c as MulDivRound, saturating at 2^31 - 1 where the quotient is too
\* large for the model's integers (a, b >= 0, c > 0); doubles hold far more
MulDivSat(a, b, c) ==
    IF b > 0 /\ (a \div c) >= (2147483647 \div b) - 1 THEN 2147483647
    ELSE MulDivRound(a, b, c)

\* round(x, n): x counted in units u, result counted in units f*u
RoundTo(x, f) == MulDivRound(x, 1, f)

\* math.floor(a / b), b > 0
FloorDiv(a, b) == a \div b

\* math.ceil(a / b), b > 0
CeilDiv(a, b) == -((-a) \div b)

\* largest s in lo..hi with s*s <= x
RECURSIVE SqrtSearch(_, _, _)
SqrtSearch(x, lo, hi) ==
    IF lo >= hi THEN lo
    ELSE IF ((lo + hi + 1) \div 2) * ((lo + hi + 1) \div 2) <= x
    THEN SqrtSearch(x, (lo + hi + 1) \div 2, hi)
    ELSE SqrtSearch(x, lo, ((lo + hi + 1) \div 2) - 1)

\* math.sqrt(x) rounded to the nearest integer, 0 <= x < 2^31
SqrtRound(x) ==
    Bind(SqrtSearch(x, 0, 46340), LAMBDA s : IF x - s * s > s THEN s + 1 ELSE s)

\* math.pi in units of 1e-8
Pi == 314159265

----------------------------------------------------------------------------
(* serviceability.py                                                       *)

\* The modulus of the deflection formula taken from the Es_MPa argument
deflection_modulus_from_Es(Es_MPa) == Es_MPa

\* E_N_per_mm2 = Ec = 25000.0 MPa, whatever Es_MPa is
deflection_modulus(Es_MPa) == 25000

\* slab_deflection_check.  span_m in 1e-3 m (L_mm in mm), thickness_mm in mm,
\* w_kN_per_m in 0.01 kN/m (w_N_per_mm in 0.01 N/mm), Es_MPa in MPa,
\* creep_coeff in 1e-2.  With Ig = h^3 / 12 the short-term deflection
\* 5 w L^4 / (384 E Ig) is 5 w (L^4 / h^3) / (32 E); L^4 / h^3 is formed in
\* 1e-3 mm, the deflections and the limit in 1e-5 mm.  The three lengths are
\* reported in 1e-3 mm.
slab_deflection_check(span_m, thickness_mm, w_kN_per_m, Es_MPa, creep_coeff) ==
    Bind(MulDivRound(span_m * 1000, span_m, thickness_mm), LAMBDA L2_over_h :
    Bind(MulDivRound(L2_over_h, span_m, thickness_mm), LAMBDA L3_over_h2 :
    Bind(MulDivRound(L3_over_h2, span_m, thickness_mm), LAMBDA L4_over_h3 :
    Bind(MulDivRound(L4_over_h3, 5 * w_kN_per_m, 32 * deflection_modulus(Es_MPa)),
         LAMBDA delta_st_mm :
    Bind(MulDivRound(delta_st_mm, creep_coeff, 100), LAMBDA delta_lt_mm :
    [inputs |-> [span_m |-> span_m, thickness_mm |-> thickness_mm,
                 w_kN_per_m |-> w_kN_per_m, Es_MPa |-> Es_MPa,
                 creep_coeff |-> creep_coeff],
     results |-> [short_term_mm |-> RoundTo(delta_st_mm, 100),
                  long_term_mm |-> RoundTo(delta_lt_mm, 100),
                  limit_mm |-> RoundTo(400 * span_m, 100),
                  serviceable |-> (delta_lt_mm <= 400 * span_m)]])))))

\* allowable_mm = 0.3, in units of 1e-6 mm
allowable_mm == 300000

\* The verdict with a tolerance of 0.005 mm above the limit
crack_ok_with_tolerance(w_mm) == w_mm <= allowable_mm + 5000

\* "ok": w_mm <= allowable_mm, on the width before it is rounded
crack_ok(w_mm) == w_mm <= allowable_mm

\* crack_width_check.  bar_spacing_mm in 0.1 mm, cover_mm and bar_dia_mm in
\* mm, stress_steel_MPa in 0.1 MPa, k_factor in 1e-2.  w_mm in 1e-6 mm;
\* estimated_mm is reported in 1e-4 mm.
crack_width_check(bar_spacing_mm, cover_mm, stress_steel_MPa, bar_dia_mm, k_factor) ==
    LET s == Max(100, bar_spacing_mm)
        cover == Max(5, cover_mm)
        f_s == Max(0, stress_steel_MPa)
        d_bar == Max(6, bar_dia_mm)
    IN \* k_factor * 0.00018 * (s - 2.0 * cover) * f_s
       Bind(MulDivRound(MulDivRound((s - 20 * cover) * f_s, 18, 10), k_factor, 100),
            LAMBDA w_mm :
       [inputs |-> [bar_spacing_mm |-> s, cover_mm |-> cover,
                    stress_steel_MPa |-> f_s, bar_dia_mm |-> d_bar,
                    k_factor |-> k_factor],
        results |-> [estimated_mm |-> RoundTo(w_mm, 100),
                     allowable_mm |-> allowable_mm,
                     ok |-> crack_ok(w_mm)]])

----------------------------------------------------------------------------
(* punching.py                                                             *)

\* _area_of_bar_mm2: pi * dia^2 / 4, in 1e-4 mm2
area_of_bar_mm2(dia_mm) == MulDivRound(dia_mm * dia_mm, Pi, 40000)

\* str.lower() over the location strings of the model
lower(str) ==
    CASE str = "Edge" -> "edge"
      [] str = "CORNER" -> "corner"
      [] OTHER -> str

\* The perimeter multiplier with every unknown location treated as an edge
perimeter_factor_unknown_as_edge(loc) ==
    IF loc = "corner" THEN 50 ELSE IF loc = "interior" THEN 100 ELSE 75

\* perimeter multiplier of a column location, in 1e-2
perimeter_factor(loc) ==
    IF loc = "corner" THEN 50 ELSE IF loc = "edge" THEN 75 ELSE 100

\* fy_assumed_MPa = 415.0
fy_assumed_MPa == 415

\* shear_reinf as initialised, before the check is known to be unsafe
no_shear_reinforcement ==
    [needs_shear_reinf |-> FALSE, Av_over_s_mm2_per_mm |-> None,
     recommended_stirrup_dia_mm |-> None, recommended_spacing_mm |-> None]

\* shear_reinf once a stirrup and a spacing are recommended
stirrup_recommendation(Av_over_s, dia, spacing) ==
    [needs_shear_reinf |-> TRUE, Av_over_s_mm2_per_mm |-> Av_over_s,
     recommended_stirrup_dia_mm |-> dia, recommended_spacing_mm |-> spacing]

\* Av_over_s = deficit_N / (0.87 * fy_assumed_MPa * d_eff_mm), in 1e-6 mm2/mm
\* (the code reports it at 1e-9, which the model's integers cannot hold);
\* the denominator is in 1e-2 N/mm
required_Av_over_s(deficit_N, d_eff_mm) ==
    MulDivRound(deficit_N, 100000, MulDivRound(d_eff_mm, 87 * fy_assumed_MPa, 1000))

\* min(0.75 * d_eff_mm, 300.0), in 1e-3 mm
spacing_cap(d_eff_mm) == Min(MulDivRound(d_eff_mm, 75, 100), 300000)

\* The stirrup spacing without the cap min(0.75 * d_eff_mm, 300)
stirrup_spacing_uncapped(stir_d, Av_over_s, cap) ==
    IF Av_over_s <= 0 THEN cap
    ELSE MulDivSat(2 * area_of_bar_mm2(stir_d), 100000, Av_over_s)

\* spacing_mm of two-legged stirrups of diameter stir_d, in 1e-3 mm
stirrup_spacing(stir_d, Av_over_s, cap) ==
    IF Av_over_s <= 0 THEN cap
    ELSE Min(MulDivSat(2 * area_of_bar_mm2(stir_d), 100000, Av_over_s), cap)

\* The recommendation without the fallback after the loop: nothing is
\* recommended when neither stirrup reaches 75 mm
shear_reinforcement_no_fallback(deficit_N, d_eff_mm) ==
    Bind(required_Av_over_s(deficit_N, d_eff_mm), LAMBDA Av_over_s :
    Bind(stirrup_spacing(10, Av_over_s, spacing_cap(d_eff_mm)), LAMBDA spacing_10 :
    Bind(stirrup_spacing(8, Av_over_s, spacing_cap(d_eff_mm)), LAMBDA spacing_8 :
    IF spacing_10 >= 75000
    THEN stirrup_recommendation(Av_over_s, 10, RoundTo(spacing_10, 100))
    ELSE IF spacing_8 >= 75000
    THEN stirrup_recommendation(Av_over_s, 8, RoundTo(spacing_8, 100))
    ELSE no_shear_reinforcement)))

\* The recommendation with the loop trying the 8 mm stirrup before the 10 mm
shear_reinforcement_8mm_first(deficit_N, d_eff_mm) ==
    Bind(required_Av_over_s(deficit_N, d_eff_mm), LAMBDA Av_over_s :
    Bind(stirrup_spacing(10, Av_over_s, spacing_cap(d_eff_mm)), LAMBDA spacing_10 :
    Bind(stirrup_spacing(8, Av_over_s, spacing_cap(d_eff_mm)), LAMBDA spacing_8 :
    IF spacing_8 >= 75000
    THEN stirrup_recommendation(Av_over_s, 8, RoundTo(spacing_8, 100))
    ELSE IF spacing_10 >= 75000
    THEN stirrup_recommendation(Av_over_s, 10, RoundTo(spacing_10, 100))
    ELSE stirrup_recommendation(Av_over_s, 10, (spacing_cap(d_eff_mm) \div 1000) * 10))))

\* The shear-reinforcement recommendation of an unsafe check: the first of
\* the 10 mm and 8 mm stirrups whose spacing reaches 75 mm, else 10 mm
\* stirrups at the capped spacing.  deficit_N in mN, d_eff_mm in 1e-3 mm;
\* the spacing is reported in 0.1 mm.
shear_reinforcement(deficit_N, d_eff_mm) ==
    Bind(required_Av_over_s(deficit_N, d_eff_mm), LAMBDA Av_over_s :
    Bind(stirrup_spacing(10, Av_over_s, spacing_cap(d_eff_mm)), LAMBDA spacing_10 :
    Bind(stirrup_spacing(8, Av_over_s, spacing_cap(d_eff_mm)), LAMBDA spacing_8 :
    IF spacing_10 >= 75000
    THEN stirrup_recommendation(Av_over_s, 10, RoundTo(spacing_10, 100))
    ELSE IF spacing_8 >= 75000
    THEN stirrup_recommendation(Av_over_s, 8, RoundTo(spacing_8, 100))
    ELSE stirrup_recommendation(Av_over_s, 10, (spacing_cap(d_eff_mm) \div 1000) * 10))))

\* safe = phiVc_N >= Vu_adj_N, with the comparison turned around
punching_safe_inverted(phiVc_N, Vu_adj_N) == phiVc_N <= Vu_adj_N

\* safe = phiVc_N >= Vu_adj_N, on the unrounded forces
punching_safe(phiVc_N, Vu_adj_N) == phiVc_N >= Vu_adj_N

\* ecc_amp = 1 + min(0.5, ecc / max(0.01, sqrt(b * d) / 1000)), in 1e-6;
\* ecc in 1e-3 m, the column width in 1e-4 m
eccentricity_amplifier(ecc, b, d) ==
    1000000 + Min(500000, MulDivSat(ecc * 10, 1000000, Max(100, SqrtRound(b * d * 100))))

\* punching_check_aci.  phi and alpha_factor in 1e-2.  Internal units:
\* d_eff_mm, b0_mm, b0_eff_mm 1e-3 mm; forces 1 mN; stresses 1e-7 MPa.
\* Reported: lengths 0.01 mm, forces 0.01 N, stresses 1e-6 MPa, utilization
\* 0.01 percent.
punching_check_aci(Pu_kN, col_b_mm, col_d_mm, pad_depth_mm, fc_MPa, phi, column_location, eccentricity_x_m, eccentricity_y_m, alpha_factor) ==
    LET Pu_N == Pu_kN
        b == Max(1, col_b_mm)
        d == Max(1, col_d_mm)
        pad_depth == Max(1, pad_depth_mm)
        d_eff_mm == Max(10000, 800 * Max(1, pad_depth_mm))
        b0_mm == 2 * (Max(1, col_b_mm) + Max(1, col_d_mm)) * 1000
                 + 4 * Max(10000, 800 * Max(1, pad_depth_mm))
        \* (column_location or "interior"); an absent location is ""
        loc == lower(IF column_location = "" THEN "interior" ELSE column_location)
        Vu_N == Pu_kN
        ex == IF eccentricity_x_m = None THEN 0 ELSE eccentricity_x_m
        ey == IF eccentricity_y_m = None THEN 0 ELSE eccentricity_y_m
    IN Bind(MulDivRound(b0_mm, perimeter_factor(loc), 100), LAMBDA b0_eff_mm :
       Bind(eccentricity_amplifier(Max(Abs(ex), Abs(ey)), b, d), LAMBDA ecc_amp :
       Bind(MulDivRound(MulDivRound(Vu_N, ecc_amp, 1000000), alpha_factor, 100),
            LAMBDA Vu_adj_N :
       \* b0_eff_mm * d_eff_mm, in 1e-2 mm2
       Bind(MulDivRound(b0_eff_mm, d_eff_mm, 10000), LAMBDA area :
       Bind(MulDivRound(Vu_adj_N, 1000000, area), LAMBDA v_u_MPa :
       \* 0.33 * sqrt(max(1.0, fc_MPa)); the square root in 1e-3
       Bind(3300 * SqrtRound(Max(1, fc_MPa) * 1000000), LAMBDA v_c_MPa :
       Bind(MulDivRound(area, v_c_MPa, 1000000), LAMBDA Vc_N :
       Bind(MulDivRound(Vc_N, phi, 100), LAMBDA phiVc_N :
       Bind(punching_safe(phiVc_N, Vu_adj_N), LAMBDA safe :
       Bind(IF phiVc_N > 0 THEN MulDivRound(Vu_adj_N, 100000, phiVc_N) ELSE 999900,
            LAMBDA util_percent :
       Bind(IF ~safe THEN shear_reinforcement(Vu_adj_N - phiVc_N, d_eff_mm)
            ELSE no_shear_reinforcement, LAMBDA shear_reinf :
       [inputs |-> [Pu_kN |-> Pu_kN, col_b_mm |-> b, col_d_mm |-> d,
                    pad_depth_mm |-> pad_depth, d_eff_mm |-> RoundTo(d_eff_mm, 10),
                    fc_MPa |-> fc_MPa, phi |-> phi, column_location |-> loc,
                    eccentricity_x_m |-> ex, eccentricity_y_m |-> ey,
                    alpha_factor |-> alpha_factor],
        results |-> [Vu_N |-> Vu_N,
                     Vu_adj_N |-> RoundTo(Vu_adj_N, 10),
                     v_u_MPa |-> RoundTo(v_u_MPa, 10),
                     vc_MPa |-> RoundTo(v_c_MPa, 10),
                     Vc_N |-> RoundTo(Vc_N, 10),
                     phiVc_N |-> RoundTo(phiVc_N, 10),
                     utilization_percent |-> RoundTo(util_percent, 10),
                     punching_safe |-> safe,
                     b0_mm |-> RoundTo(b0_mm, 10),
                     b0_eff_mm |-> RoundTo(b0_eff_mm, 10),
                     d_eff_mm |-> RoundTo(d_eff_mm, 10),
                     needs_shear_reinf |-> shear_reinf.needs_shear_reinf,
                     Av_over_s_mm2_per_mm |-> shear_reinf.Av_over_s_mm2_per_mm,
                     recommended_stirrup_dia_mm |-> shear_reinf.recommended_stirrup_dia_mm,
                     recommended_spacing_mm |-> shear_reinf.recommended_spacing_mm]]
       )))))))))))

----------------------------------------------------------------------------
(* footing.py                                                              *)

\* steel_ratio = 0.003, in 1e-3
steel_ratio == 3

\* n_layers = 2 (top & bottom)
n_layers == 2

\* The value of an Optional field, with the default the code substitutes
OrDefault(v, dflt) == IF v = None THEN dflt ELSE v

\* Python truthiness of an Optional[float]
Truthy(v) == v # None /\ v # 0

\* The required area rounded up to a whole 0.01 m2
required_area_rounded_up(inp) ==
    CeilDiv(MulDivRound(inp.Pu_kN, 100000, inp.soil_allow_kN_per_m2 * 1000), 1000000)
        * 1000000

\* A_req_m2 = Pu_N / q_allow, in 1e-8 m2 (Pu_N = Pu_kN * 1000 in mN,
\* q_allow = soil_allow_kN_per_m2 * 1000 in N/m2, > 0)
required_area(inp) ==
    MulDivRound(inp.Pu_kN, 100000, inp.soil_allow_kN_per_m2 * 1000)

\* The input checks with the check of the required area left out
input_error_soil_only(inp) == inp.soil_allow_kN_per_m2 * 1000 <= 0

\* The input checks: TRUE where run_footing_design raises ValueError
input_error(inp) ==
    IF inp.soil_allow_kN_per_m2 * 1000 <= 0 THEN TRUE
    ELSE required_area(inp) <= 0

\* The pad side taken from assumed_side_m whenever one is given, also a zero
\* or negative one
pad_side_any_assumed(inp, A_req_m2) ==
    IF inp.assumed_side_m # None
    THEN [side_m |-> inp.assumed_side_m,
          A_used_m2 |-> inp.assumed_side_m * inp.assumed_side_m]
    ELSE [side_m |-> SqrtRound(A_req_m2), A_used_m2 |-> A_req_m2]

\* side_m (1e-4 m) and A_used_m2 (1e-8 m2): the assumed side if a positive
\* one is given, else the side of the square of the required area
pad_side(inp, A_req_m2) ==
    IF Truthy(inp.assumed_side_m) /\ inp.assumed_side_m > 0
    THEN [side_m |-> inp.assumed_side_m,
          A_used_m2 |-> inp.assumed_side_m * inp.assumed_side_m]
    ELSE [side_m |-> SqrtRound(A_req_m2), A_used_m2 |-> A_req_m2]

\* The eccentricity effect without its cap of +50%
eccentricity_effect_uncapped(ecc, side_m) ==
    IF ecc > 0 /\ side_m > 0
    THEN 1000000 + MulDivSat(ecc * 10, 1000000, side_m)
    ELSE 1000000

\* ecc_effect = 1 + min(0.5, ecc / side_m) if ecc > 0 and side_m > 0, else 1;
\* in 1e-6, ecc in 1e-3 m, side_m in 1e-4 m
eccentricity_effect(ecc, side_m) ==
    IF ecc > 0 /\ side_m > 0
    THEN 1000000 + Min(500000, MulDivSat(ecc * 10, 1000000, side_m))
    ELSE 1000000

\* The bars of a row with the quotient rounded up instead of down
bars_per_row_ceil(usable_width_mm, spacing_mm) ==
    Max(2, CeilDiv(usable_width_mm * 10, spacing_mm))

\* n_per_row = max(2, floor(usable_width_mm / spacing_mm)); usable_width_mm
\* in 0.1 mm, spacing_mm in 0.01 mm
bars_per_row(usable_width_mm, spacing_mm) ==
    Max(2, FloorDiv(usable_width_mm * 10, spacing_mm))

\* The top-up with the missing bars rounded down
add_per_row_floor(As_req_mm2, provided_As_mm2, single_bar_area_mm2) ==
    CeilDiv(FloorDiv(As_req_mm2 - provided_As_mm2, single_bar_area_mm2), n_layers)

\* add_per_row of the top-up: the bars added to each row so that the grid
\* meets As_req_mm2 (areas in 1e-4 mm2)
add_per_row(As_req_mm2, provided_As_mm2, single_bar_area_mm2) ==
    CeilDiv(CeilDiv(As_req_mm2 - provided_As_mm2, single_bar_area_mm2), n_layers)

\* The local variables of run_footing_design once the pad is sized and the
\* grid topped up.  Units: areas in m2 1e-8 m2 (A_final_mm2 = A_final_m2 * 1e6
\* is the same count in 1e-2 mm2), side_m 1e-4 m (side_mm the same count in
\* 0.1 mm), ecc 1e-3 m, ecc_effect 1e-6, spacing_mm 0.01 mm, steel areas
\* 1e-4 mm2.
footing_sizing(inp) ==
    LET cover_mm == OrDefault(inp.cover_mm, 25)
        bar_dia_mm == OrDefault(inp.bar_dia_mm, 10)
        spacing_mm == IF OrDefault(inp.target_spacing_mm, 150) <= 0 THEN 15000
                      ELSE 100 * OrDefault(inp.target_spacing_mm, 150)
        ecc == Max(Abs(OrDefault(inp.eccentricity_x_m, 0)),
                   Abs(OrDefault(inp.eccentricity_y_m, 0)))
    IN Bind(required_area(inp), LAMBDA A_req_m2 :
       Bind(pad_side(inp, A_req_m2), LAMBDA side :
       Bind(eccentricity_effect(ecc, side.side_m), LAMBDA ecc_effect :
       Bind(MulDivRound(side.A_used_m2, ecc_effect, 1000000), LAMBDA A_final_m2 :
       Bind(bars_per_row(Max(10, side.side_m - 20 * cover_mm), spacing_mm),
            LAMBDA n_per_row0 :
       Bind(MulDivRound(bar_dia_mm * bar_dia_mm, Pi, 40000), LAMBDA single_bar_area_mm2 :
       Bind(Max(1000000, MulDivRound(A_final_m2, steel_ratio * 100, 1000)),
            LAMBDA As_req_mm2 :
       Bind(IF n_per_row0 * n_layers * single_bar_area_mm2 < As_req_mm2
            THEN n_per_row0 + add_per_row(As_req_mm2,
                                          n_per_row0 * n_layers * single_bar_area_mm2,
                                          single_bar_area_mm2)
            ELSE n_per_row0, LAMBDA n_per_row :
       [cover_mm |-> cover_mm, bar_dia_mm |-> bar_dia_mm,
        A_req_m2 |-> A_req_m2, side_m |-> side.side_m, A_used_m2 |-> side.A_used_m2,
        ecc |-> ecc, ecc_effect |-> ecc_effect, A_final_m2 |-> A_final_m2,
        depth_mm |-> inp.pad_depth_mm, spacing_mm |-> spacing_mm,
        n_per_row0 |-> n_per_row0, n_per_row |-> n_per_row,
        n_bars_total |-> n_per_row * n_layers,
        single_bar_area_mm2 |-> single_bar_area_mm2,
        As_req_mm2 |-> As_req_mm2,
        provided_As_mm2 |-> n_per_row * n_layers * single_bar_area_mm2]
       ))))))))

\* drawing_info.  pad_side_m in 1e-3 m, spacing_mm in 0.1 mm.
drawing_info(v) ==
    [pad_side_m |-> RoundTo(v.side_m, 10), pad_depth_mm |-> v.depth_mm,
     cover_mm |-> v.cover_mm, bar_dia_mm |-> v.bar_dia_mm,
     n_per_row |-> v.n_per_row, n_layers |-> n_layers,
     spacing_mm |-> RoundTo(v.spacing_mm, 10)]

\* The results dict before the sub-checks are attached.  Reported units:
\* areas in m2 1e-6 m2, side_m and eccentricity_m 1e-3 m, ecc_effect_factor
\* 1e-3, steel areas 0.01 mm2, spacing_mm 0.1 mm.
sizing_results(v) ==
    [A_req_m2 |-> RoundTo(v.A_req_m2, 100),
     side_m |-> RoundTo(v.side_m, 10),
     A_used_m2 |-> RoundTo(v.A_used_m2, 100),
     eccentricity_m |-> RoundTo(v.ecc, 1),
     ecc_effect_factor |-> RoundTo(v.ecc_effect, 1000),
     A_final_m2 |-> RoundTo(v.A_final_m2, 100),
     pad_depth_mm |-> v.depth_mm,
     As_req_mm2 |-> RoundTo(v.As_req_mm2, 100),
     bar_dia_mm |-> v.bar_dia_mm,
     spacing_mm |-> RoundTo(v.spacing_mm, 10),
     n_per_row |-> v.n_per_row,
     n_layers |-> n_layers,
     n_bars_total |-> v.n_bars_total,
     provided_As_mm2 |-> RoundTo(v.provided_As_mm2, 100),
     drawing_params |-> drawing_info(v)]

\* The name of a report file: <prefix>_report_<ts>.<ext>, ts the clock second
report_name(prefix, ts, ext) == <<prefix, ts, ext>>

\* _write_reports: the text and the HTML report of one call, written over any
\* file of the same name.  fs is the reports directory, now the clock second.
\* io_fails: opening the text file raises, nothing is written.
write_reports_files(prefix, inputs, results, now, fs, io_fails) ==
    IF io_fails THEN [raised |-> TRUE, files |-> fs]
    ELSE [raised |-> FALSE,
          paths |-> [txt |-> report_name(prefix, now, "txt"),
                     html |-> report_name(prefix, now, "html")],
          files |-> [n \in DOMAIN fs \cup {report_name(prefix, now, "txt"),
                                           report_name(prefix, now, "html")} |->
                       IF n \in {report_name(prefix, now, "txt"),
                                 report_name(prefix, now, "html")}
                       THEN [inputs |-> inputs, results |-> results]
                       ELSE fs[n]]]

\* The faults the environment can inject into one call: a sub-check that
\* raises, file I/O that fails
NoFault == [punching |-> FALSE, crack |-> FALSE, io |-> FALSE, takeoff |-> FALSE]

\* results["punching"] of run_footing_design
footing_punching(inp, v, fault) ==
    IF fault.punching THEN [error |-> "punching check failed"]
    ELSE punching_check_aci(inp.Pu_kN, OrDefault(inp.col_b_mm, 300),
                            OrDefault(inp.col_d_mm, 300), v.depth_mm, inp.fc_MPa,
                            75, "interior", 0, 0, 100)

\* The crack-width check inside the try block of the punching check: it is
\* lost when the punching check raises
footing_serviceability_one_try(inp, results, fault) ==
    IF fault.crack \/ fault.punching THEN [error |-> "crack width check failed"]
    ELSE crack_width_check(results.spacing_mm, results.drawing_params.cover_mm,
                           IF Truthy(inp.fy_MPa) THEN 5 * inp.fy_MPa ELSE 2000,
                           12, 100)

\* results["serviceability"] of run_footing_design; the steel stress fy/2
\* is in 0.1 MPa
footing_serviceability(inp, results, fault) ==
    IF fault.crack THEN [error |-> "crack width check failed"]
    ELSE crack_width_check(results.spacing_mm, results.drawing_params.cover_mm,
                           IF Truthy(inp.fy_MPa) THEN 5 * inp.fy_MPa ELSE 2000,
                           12, 100)

\* The end of run_footing_design with the reports written whatever
\* write_reports says
attach_reports_always(inp, checked, write_reports, fault, now, fs) ==
    Bind(write_reports_files("footing", inp, checked, now, fs, fault.io), LAMBDA rp :
    IF rp.raised THEN [ret |-> [status |-> "OSError"], files |-> rp.files]
    ELSE [ret |-> [status |-> "ok",
                   value |-> checked @@ [report_paths |-> rp.paths]],
          files |-> rp.files])

\* The end of run_footing_design: if write_reports, the reports are written
\* and their paths attached; an exception of the writer is not caught
attach_reports(inp, checked, write_reports, fault, now, fs) ==
    IF ~write_reports
    THEN [ret |-> [status |-> "ok", value |-> checked], files |-> fs]
    ELSE Bind(write_reports_files("footing", inp, checked, now, fs, fault.io),
              LAMBDA rp :
         IF rp.raised THEN [ret |-> [status |-> "OSError"], files |-> rp.files]
         ELSE [ret |-> [status |-> "ok",
                        value |-> checked @@ [report_paths |-> rp.paths]],
               files |-> rp.files])

\* run_footing_design(inp, write_reports) called at clock second now with
\* reports directory fs: what it returns or raises, and the directory after
run_footing_design(inp, write_reports, fault, now, fs) ==
    IF input_error(inp)
    THEN [ret |-> [status |-> "ValueError"], files |-> fs]
    ELSE IF OrDefault(inp.bar_dia_mm, 10) = 0
    THEN [ret |-> [status |-> "ZeroDivisionError"], files |-> fs]
    ELSE Bind(footing_sizing(inp), LAMBDA v :
         Bind(sizing_results(v), LAMBDA sized :
         Bind(sized @@ [punching |-> footing_punching(inp, v, fault),
                        serviceability |-> footing_serviceability(inp, sized, fault)],
              LAMBDA checked :
         attach_reports(inp, checked, write_reports, fault, now, fs))))

----------------------------------------------------------------------------
(* drawings.py: takeoff helpers                                            *)

\* STEEL_DENSITY_KG_M3
STEEL_DENSITY_KG_M3 == 7850

\* estimate_bar_length_for_pad: max(0, pad_side_m - 2 * cover), in 1e-3 m
estimate_bar_length_for_pad(d) ==
    Max(0, d.pad_side_m - 2 * (IF d.cover_mm # 0 THEN d.cover_mm ELSE 25))

\* The bars of a row always counted from the spacing, whatever n_per_row the
\* drawing_params carry
takeoff_n_row_from_spacing(d) ==
    LET cover_mm == IF d.cover_mm # 0 THEN d.cover_mm ELSE 25
        spacing_mm == IF d.spacing_mm # 0 THEN d.spacing_mm ELSE 1500
    IN Max(1, FloorDiv(Max(1, d.pad_side_m - 2 * cover_mm) * 10, spacing_mm))

\* n_row of the takeoff: n_per_row, or the bars that fit at the spacing when
\* n_per_row is 0 (spacing_mm in 0.1 mm, pad_side_m in 1e-3 m)
takeoff_n_row(d) ==
    LET cover_mm == IF d.cover_mm # 0 THEN d.cover_mm ELSE 25
        spacing_mm == IF d.spacing_mm # 0 THEN d.spacing_mm ELSE 1500
    IN IF d.n_per_row = 0 /\ spacing_mm > 0 /\ d.pad_side_m > 0
       THEN Max(1, FloorDiv(Max(1, d.pad_side_m - 2 * cover_mm) * 10, spacing_mm))
       ELSE d.n_per_row

\* estimate_takeoff_from_drawingparams over the drawing_params of the footing
\* engine.  Reported: lengths 1e-3 m, steel_mass_kg 0.01 kg,
\* concrete_volume_m3 1e-3 m3, pad_depth_mm, bar_dia_mm, spacing_mm 0.1 mm.
estimate_takeoff_from_drawingparams(d, fails) ==
    IF fails THEN [error |-> "takeoff_estimate_failed"]
    ELSE
    LET depth_mm == IF d.pad_depth_mm # 0 THEN d.pad_depth_mm ELSE 400
        bar_dia_mm == IF d.bar_dia_mm # 0 THEN d.bar_dia_mm ELSE 10
        layers == IF d.n_layers # 0 THEN d.n_layers ELSE 2
        spacing_mm == IF d.spacing_mm # 0 THEN d.spacing_mm ELSE 1500
    IN Bind(takeoff_n_row(d), LAMBDA n_row :
       Bind(estimate_bar_length_for_pad(d), LAMBDA bar_length_m :
       Bind(n_row * layers * bar_length_m, LAMBDA total_length_m :
       \* pi * bar_dia_mm^2 / 4, in 1e-4 mm2
       Bind(MulDivRound(bar_dia_mm * bar_dia_mm, Pi, 40000), LAMBDA area_mm2 :
       \* area_m2 * total_length_m, in 1e-7 m3
       Bind(MulDivRound(area_mm2, total_length_m, 1000000), LAMBDA steel_volume_m3 :
       \* in 1e-3 kg
       Bind(MulDivRound(steel_volume_m3, STEEL_DENSITY_KG_M3, 10000),
            LAMBDA steel_mass_kg :
       \* pad_side_m^2 * depth_mm / 1000, in 1e-5 m3
       Bind(MulDivRound(d.pad_side_m * d.pad_side_m, depth_mm, 10000),
            LAMBDA concrete_vol_m3 :
       [pad_side_m |-> RoundTo(d.pad_side_m, 1),
        pad_depth_mm |-> 10 * depth_mm,
        n_per_row |-> n_row,
        n_layers |-> layers,
        total_bars |-> n_row * layers,
        bar_length_m |-> RoundTo(bar_length_m, 1),
        total_steel_length_m |-> RoundTo(total_length_m, 1),
        steel_mass_kg |-> RoundTo(steel_mass_kg, 10),
        concrete_volume_m3 |-> RoundTo(concrete_vol_m3, 100),
        bar_dia_mm |-> 10 * bar_dia_mm,
        spacing_mm |-> RoundTo(spacing_mm, 1)]
       )))))))

----------------------------------------------------------------------------
(* combined_footing.py                                                     *)

\* Python "v or dflt" over an optional number
Or(v, dflt) == IF Truthy(v) THEN v ELSE dflt

\* mode = "single" if p.get("Pu_kN") else "two_column"
combined_mode(p) == IF Truthy(p.Pu_kN) THEN "single" ELSE "two_column"

\* total_load_kN, in 1e-6 kN
combined_total_load(p) ==
    IF combined_mode(p) = "single" THEN p.Pu_kN
    ELSE Or(p.P1_kN, 0) + Or(p.P2_kN, 0)

\* required_area_m2 of the two-column branch: total load / soil pressure,
\* in 1e-8 m2
combined_required_area(p) ==
    IF Or(p.soil_allow_kN_per_m2, 150) > 0
    THEN MulDivRound(combined_total_load(p), 100000,
                     Or(p.soil_allow_kN_per_m2, 150) * 1000)
    ELSE -MulDivRound(combined_total_load(p), 100000,
                      -Or(p.soil_allow_kN_per_m2, 150) * 1000)

\* The FootingInput design_combined builds in either mode
combined_footing_input(p) ==
    LET single == combined_mode(p) = "single"
    IN [Pu_kN |-> combined_total_load(p),
        col_b_mm |-> IF single THEN Or(p.col_b_mm, 300) ELSE Or(p.col1_b_mm, 300),
        col_d_mm |-> IF single THEN Or(p.col_d_mm, 300) ELSE Or(p.col1_d_mm, 300),
        soil_allow_kN_per_m2 |-> Or(p.soil_allow_kN_per_m2, 150),
        pad_depth_mm |-> Or(p.pad_depth_mm, 500),
        fc_MPa |-> Or(p.fc_MPa, 25),
        fy_MPa |-> Or(p.fy_MPa, 415),
        eccentricity_x_m |-> Or(p.eccentricity_x_m, 0),
        eccentricity_y_m |-> Or(p.eccentricity_y_m, 0),
        assumed_side_m |-> IF single
                           THEN (IF Truthy(p.assumed_side_m) THEN p.assumed_side_m ELSE None)
                           ELSE SqrtRound(combined_required_area(p)),
        cover_mm |-> Or(p.cover_mm, 25),
        bar_dia_mm |-> Or(p.bar_dia_mm, 10),
        target_spacing_mm |-> Or(p.target_spacing_mm, 150)]

\* results["punching"] of design_combined
combined_punching(p, fault) ==
    IF fault.punching THEN [error |-> "punching check failed"]
    ELSE punching_check_aci(combined_total_load(p),
                            Or(p.col1_b_mm, Or(p.col_b_mm, 300)),
                            Or(p.col1_d_mm, Or(p.col_d_mm, 300)),
                            Or(p.pad_depth_mm, 500), Or(p.fc_MPa, 25),
                            Or(p.phi, 75), p.column_location,
                            Or(p.eccentricity_x_m, 0), Or(p.eccentricity_y_m, 0), 100)

\* results["serviceability"] of design_combined; the steel stress in 0.1 MPa
combined_serviceability(p, engine_results, fault) ==
    IF fault.crack THEN [error |-> "serviceability check failed"]
    ELSE crack_width_check(IF engine_results.spacing_mm # 0
                           THEN engine_results.spacing_mm
                           ELSE 10 * Or(p.target_spacing_mm, 150),
                           IF engine_results.drawing_params.cover_mm # 0
                           THEN engine_results.drawing_params.cover_mm
                           ELSE Or(p.cover_mm, 25),
                           5 * Or(p.fy_MPa, 415), Or(p.bar_dia_mm, 12), 100)

\* The takeoff with a failure of the estimate swallowed into an empty dict
combined_takeoff_swallowed(engine_results, fault) ==
    IF fault.takeoff THEN <<>>
    ELSE estimate_takeoff_from_drawingparams(engine_results.drawing_params, FALSE)

\* results["takeoff"] of design_combined: the estimate over the drawing_params
\* of the footing engine; a failure inside the estimate comes back as its
\* error dict
combined_takeoff(engine_results, fault) ==
    estimate_takeoff_from_drawingparams(engine_results.drawing_params, fault.takeoff)

\* results_out of design_combined.  total_load_kN is reported in 1e-3 kN.
combined_results(p, engine_results, fault) ==
    [mode |-> combined_mode(p),
     total_load_kN |-> RoundTo(combined_total_load(p), 1000),
     soil_allow_kN_per_m2 |-> Or(p.soil_allow_kN_per_m2, 150),
     required_area_m2 |-> RoundTo(engine_results.A_final_m2, 1),
     pad_side_m |-> IF engine_results.side_m # 0 THEN RoundTo(engine_results.side_m, 1)
                    ELSE engine_results.drawing_params.pad_side_m,
     drawing_params |-> engine_results.drawing_params,
     engine_results |-> engine_results,
     punching |-> combined_punching(p, fault),
     serviceability |-> combined_serviceability(p, engine_results, fault),
     takeoff |-> combined_takeoff(engine_results, fault)]

\* design_combined(params, write_reports) called at clock second now with
\* reports directory fs; later is the clock second at which the second call
\* of the footing engine is made.  The footing engine is first called with its
\* default write_reports=True to look at the type of what it returns, then
\* called again with the caller's write_reports.
design_combined(p, write_reports, fault, now, later, fs) ==
    IF combined_mode(p) = "two_column" /\ combined_required_area(p) < 0
    THEN [ret |-> [status |-> "ValueError"], files |-> fs]
    ELSE Bind(combined_footing_input(p), LAMBDA inp :
         Bind(run_footing_design(inp, TRUE, fault, now, fs), LAMBDA probe :
         IF probe.ret.status # "ok" THEN probe
         ELSE Bind(run_footing_design(inp, write_reports, fault, later, probe.files),
                   LAMBDA engine :
              IF engine.ret.status # "ok" THEN engine
              ELSE [ret |-> [status |-> "ok",
                             value |-> [inputs |-> p,
                                        results |-> combined_results(p, engine.ret.value, fault)]],
                    files |-> engine.files])))

----------------------------------------------------------------------------
(* Bounds and input domains                                                *)

\* calls made in one behaviour
MaxCalls == 2

\* times one footing request is made again
MaxRepeats == 2

\* clock seconds that pass in one behaviour
MaxClock == 1

\* loads of the sizing domain: multiples of 62.5 kN
MaxLoadSteps == 6

\* loads of the punching domain: mN above the 1386 kN capacity of a
\* 300 x 300 interior column on a 500 mm pad of 25 MPa concrete
MaxNearCapacity == 6

\* A FootingInput with every optional field left out
BaseInput ==
    [Pu_kN |-> 150000000, col_b_mm |-> None, col_d_mm |-> None,
     soil_allow_kN_per_m2 |-> 150, pad_depth_mm |-> 500, fc_MPa |-> 25,
     fy_MPa |-> 415, eccentricity_x_m |-> None, eccentricity_y_m |-> None,
     assumed_side_m |-> None, cover_mm |-> None, bar_dia_mm |-> None,
     target_spacing_mm |-> None]

\* The footing requests of the call-level specifications: a plain pad, an
\* eccentric pad of assumed side, and requests the engine must reject
FootingInputs ==
    { BaseInput,
      [BaseInput EXCEPT !.Pu_kN = 437500000, !.soil_allow_kN_per_m2 = 170,
                        !.assumed_side_m = 18000, !.eccentricity_x_m = -900,
                        !.cover_mm = 50, !.bar_dia_mm = 6, !.target_spacing_mm = 0],
      [BaseInput EXCEPT !.soil_allow_kN_per_m2 = 0],
      [BaseInput EXCEPT !.soil_allow_kN_per_m2 = -50],
      [BaseInput EXCEPT !.Pu_kN = 0],
      [BaseInput EXCEPT !.Pu_kN = -50000000] }

\* The footing requests of the sizing specification
SizingInputs ==
    { [BaseInput EXCEPT !.Pu_kN = pu, !.soil_allow_kN_per_m2 = q,
                        !.assumed_side_m = side, !.eccentricity_x_m = ex,
                        !.cover_mm = cover, !.bar_dia_mm = dia,
                        !.target_spacing_mm = sp] :
        pu \in {k * 62500000 : k \in 1..MaxLoadSteps} \cup {100000000, 2000000000},
        q \in {150, 170, 200},
        side \in {None, 0, -10000, 18000},
        ex \in {None, -300, 900},
        cover \in {None, 75},
        dia \in {None, 1, 16},
        sp \in {None, 0, 50, 200} }

\* The faults the environment injects in the call-level specifications
Faults ==
    { NoFault, [NoFault EXCEPT !.punching = TRUE], [NoFault EXCEPT !.crack = TRUE],
      [NoFault EXCEPT !.punching = TRUE, !.crack = TRUE],
      [NoFault EXCEPT !.io = TRUE] }

\* A params dict of design_combined with every key left out
BaseParams ==
    [Pu_kN |-> None, P1_kN |-> None, P2_kN |-> None, col_b_mm |-> None,
     col_d_mm |-> None, col1_b_mm |-> None, col1_d_mm |-> None,
     soil_allow_kN_per_m2 |-> None, pad_depth_mm |-> None, fc_MPa |-> None,
     fy_MPa |-> None, eccentricity_x_m |-> None, eccentricity_y_m |-> None,
     assumed_side_m |-> None, cover_mm |-> None, bar_dia_mm |-> None,
     target_spacing_mm |-> None, phi |-> None, column_location |-> ""]

\* The combined-footing requests of the call-level specification
CombinedParams ==
    { [BaseParams EXCEPT !.Pu_kN = 150000000],
      [BaseParams EXCEPT !.P1_kN = 100000000, !.P2_kN = 50000000,
                         !.soil_allow_kN_per_m2 = 150],
      [BaseParams EXCEPT !.P1_kN = 100000000, !.P2_kN = 50000000,
                         !.soil_allow_kN_per_m2 = -50] }

\* The combined-footing requests of the combined specification: with and
\* without the legacy load, with one or both column loads, soil pressures
\* left out, zero, negative and positive, centred and eccentric; and heavy
\* loads on interior and corner columns whose dimensions are given under
\* the single-column keys, the column-1 keys, both or neither
CombinedArgs ==
    { [BaseParams EXCEPT !.Pu_kN = pu, !.P1_kN = p1, !.P2_kN = p2,
                         !.soil_allow_kN_per_m2 = q, !.eccentricity_x_m = ex,
                         !.eccentricity_y_m = ey] :
        pu \in {None, 0, 150000000},
        p1 \in {None, 100000000},
        p2 \in {None, 50000000},
        q \in {None, 0, -50, 150, 170},
        ex \in {None, 300, -2000},
        ey \in {None, 100} }
    \cup
    { [BaseParams EXCEPT !.Pu_kN = pu, !.P1_kN = p1, !.P2_kN = 400000000,
                         !.col_b_mm = cb, !.col_d_mm = cb, !.col1_b_mm = c1,
                         !.column_location = loc] :
        pu \in {None, 1000000000},
        p1 \in {None, 600000000},
        cb \in {None, 400},
        c1 \in {None, 350},
        loc \in {"", "corner"} }

\* The faults the environment injects in the combined specification
CombinedFaults ==
    { NoFault, [NoFault EXCEPT !.punching = TRUE], [NoFault EXCEPT !.crack = TRUE],
      [NoFault EXCEPT !.takeoff = TRUE], [NoFault EXCEPT !.io = TRUE] }

\* The steel moduli passed to slab_deflection_check, in MPa
DeflectionModuli == {25000, 200000, 210000}

\* The arguments of slab_deflection_check in the deflection specification:
\* line loads below, at and above the load that brings a 1 m span of a
\* 200 mm slab to its limit
DeflectionArgs ==
    [span_m : {1000, 1500, 2000}, thickness_mm : {200, 250},
     w_kN_per_m : {100, 256, 257, 1000}, Es_MPa : DeflectionModuli,
     creep_coeff : {100, 200, 300}]

\* The steel stresses of the crack-width specification, in 0.1 MPa
CrackStresses == {-500, 0, 1389, 1392, 2000, 2075}

\* The arguments of crack_width_check in the crack-width specification:
\* spacings and covers below and above their clamps, covers below and above
\* half the spacing
CrackArgs ==
    [bar_spacing_mm : {50, 320, 1000, 1500}, cover_mm : {0, 10, 25, 75},
     stress_steel_MPa : CrackStresses, bar_dia_mm : {12}, k_factor : {100}]

\* The arguments of punching_check_aci in the punching specification
PunchingArgs ==
    [Pu_kN : {100000000, 900000001} \cup {1386000000 + k : k \in 0..MaxNearCapacity},
     col_b_mm : {300, 400}, col_d_mm : {300, 400}, pad_depth_mm : {100, 500},
     fc_MPa : {20, 25}, phi : {75, 90},
     column_location : {"", "interior", "edge", "Edge", "corner", "piled"},
     eccentricity_x_m : {0, 100}, eccentricity_y_m : {0}, alpha_factor : {100}]
    \cup
    \* pads so thin that the effective depth is at its floor of 10 mm
    [Pu_kN : {100000000}, col_b_mm : {300, 400}, col_d_mm : {300, 400},
     pad_depth_mm : {10}, fc_MPa : {25}, phi : {75},
     column_location : {"", "edge", "CORNER", "piled"},
     eccentricity_x_m : {0, 100}, eccentricity_y_m : {0}, alpha_factor : {100}]

----------------------------------------------------------------------------
(* The calls.  call is the request being served (or the last one served),  *)
(* ret what it returned or raised, files the reports directory, clock the  *)
(* wall clock in seconds, ncalls the requests made so far, prev the last   *)
(* report-free footing request that returned a result, with that result.   *)

NoCall == [op |-> "none"]
NoRet == [status |-> "none"]
Pending == [status |-> "pending"]
NoPrev == [call |-> NoCall, ret |-> NoRet]

Init ==
    /\ call = NoCall
    /\ ret = NoRet
    /\ files = <<>>
    /\ clock = 0
    /\ ncalls = 0
    /\ prev = NoPrev

\* A second of wall-clock time passes
Tick ==
    /\ clock < MaxClock
    /\ clock' = clock + 1
    /\ UNCHANGED <<call, ret, files, ncalls, prev>>

\* A caller invokes run_footing_design(inp, write_reports=w)
CallFooting(inp, w, fault) ==
    /\ ret # Pending
    /\ ncalls < MaxCalls
    /\ call' = [op |-> "run_footing_design", inp |-> inp, write_reports |-> w,
                fault |-> fault]
    /\ ret' = Pending
    /\ ncalls' = ncalls + 1
    /\ UNCHANGED <<files, clock, prev>>

\* A caller invokes design_combined(params, write_reports=w)
CallCombined(p, w, fault) ==
    /\ ret # Pending
    /\ ncalls < MaxCalls
    /\ call' = [op |-> "design_combined", inp |-> p, write_reports |-> w,
                fault |-> fault]
    /\ ret' = Pending
    /\ ncalls' = ncalls + 1
    /\ UNCHANGED <<files, clock, prev>>

\* The served run_footing_design call is made again with the same input
RepeatFooting(w) ==
    /\ call.op = "run_footing_design"
    /\ ret # Pending
    /\ ncalls < 1 + MaxRepeats
    /\ prev' = IF ret.status = "ok" /\ ~call.write_reports
               THEN [call |-> call, ret |-> ret] ELSE prev
    /\ call' = [call EXCEPT !.write_reports = w]
    /\ ret' = Pending
    /\ ncalls' = ncalls + 1
    /\ UNCHANGED <<files, clock>>

\* run_footing_design runs to its return or its exception
ReturnFooting ==
    /\ call.op = "run_footing_design"
    /\ ret = Pending
    /\ LET out == run_footing_design(call.inp, call.write_reports, call.fault,
                                     clock, files)
       IN /\ ret' = out.ret
          /\ files' = out.files
    /\ UNCHANGED <<call, clock, ncalls, prev>>

\* design_combined runs to its return or its exception; the clock may pass a
\* second between its two calls of the footing engine
ReturnCombined(later) ==
    /\ call.op = "design_combined"
    /\ ret = Pending
    /\ later \in {clock, clock + 1}
    /\ later <= MaxClock
    /\ LET out == design_combined(call.inp, call.write_reports, call.fault,
                                  clock, later, files)
       IN /\ ret' = out.ret
          /\ files' = out.files
    /\ clock' = later
    /\ UNCHANGED <<call, ncalls, prev>>

\* punching_check_aci runs to its return
ReturnPunching ==
    /\ call.op = "punching_check_aci"
    /\ ret = Pending
    /\ LET a == call.inp
       IN ret' = [status |-> "ok",
                  value |-> punching_check_aci(a.Pu_kN, a.col_b_mm, a.col_d_mm,
                                a.pad_depth_mm, a.fc_MPa, a.phi, a.column_location,
                                a.eccentricity_x_m, a.eccentricity_y_m, a.alpha_factor)]
    /\ UNCHANGED <<call, files, clock, ncalls, prev>>

\* slab_deflection_check runs to its return
ReturnDeflection ==
    /\ call.op = "slab_deflection_check"
    /\ ret = Pending
    /\ LET a == call.inp
       IN ret' = [status |-> "ok",
                  value |-> slab_deflection_check(a.span_m, a.thickness_mm,
                                a.w_kN_per_m, a.Es_MPa, a.creep_coeff)]
    /\ UNCHANGED <<call, files, clock, ncalls, prev>>

\* crack_width_check runs to its return
ReturnCrack ==
    /\ call.op = "crack_width_check"
    /\ ret = Pending
    /\ LET a == call.inp
       IN ret' = [status |-> "ok",
                  value |-> crack_width_check(a.bar_spacing_mm, a.cover_mm,
                                a.stress_steel_MPa, a.bar_dia_mm, a.k_factor)]
    /\ UNCHANGED <<call, files, clock, ncalls, prev>>

\* The served crack_width_check call is made again with the same spacing and
\* cover and a strictly larger steel stress f
RaiseStress(f) ==
    /\ call.op = "crack_width_check"
    /\ ret.status = "ok"
    /\ f > call.inp.stress_steel_MPa
    /\ prev' = [call |-> call, ret |-> ret]
    /\ call' = [call EXCEPT !.inp.stress_steel_MPa = f]
    /\ ret' = Pending
    /\ ncalls' = ncalls + 1
    /\ UNCHANGED <<files, clock>>

\* Requests served one after another, with reports and a running clock
Next ==
    \/ \E inp \in FootingInputs, w \in BOOLEAN, fault \in Faults :
          CallFooting(inp, w, fault)
    \/ \E p \in CombinedParams, w \in BOOLEAN, fault \in {NoFault, [NoFault EXCEPT !.io = TRUE]} :
          CallCombined(p, w, fault)
    \/ ReturnFooting
    \/ \E later \in 0..MaxClock : ReturnCombined(later)
    \/ Tick

Spec == Init /\ [][Next]_vars

\* One report-free footing request drawn from the sizing domain
InitSizing ==
    /\ call \in {[op |-> "run_footing_design", inp |-> inp, write_reports |-> FALSE,
                  fault |-> NoFault] : inp \in SizingInputs}
    /\ ret = Pending
    /\ files = <<>>
    /\ clock = 0
    /\ ncalls = 1
    /\ prev = NoPrev

NextSizing == ReturnFooting

SpecSizing == InitSizing /\ [][NextSizing]_vars

\* One punching check drawn from the punching domain
InitPunching ==
    /\ call \in {[op |-> "punching_check_aci", inp |-> a] : a \in PunchingArgs}
    /\ ret = Pending
    /\ files = <<>>
    /\ clock = 0
    /\ ncalls = 1
    /\ prev = NoPrev

NextPunching == ReturnPunching

SpecPunching == InitPunching /\ [][NextPunching]_vars

\* One footing request made again and again while the clock runs and reports
\* are written
NextRepeat ==
    \/ \E inp \in FootingInputs, w \in BOOLEAN, fault \in Faults :
          ncalls = 0 /\ CallFooting(inp, w, fault)
    \/ \E w \in BOOLEAN : RepeatFooting(w)
    \/ ReturnFooting
    \/ Tick

SpecRepeat == Init /\ [][NextRepeat]_vars

\* One deflection check drawn from the deflection domain
InitDeflection ==
    /\ call \in {[op |-> "slab_deflection_check", inp |-> a] : a \in DeflectionArgs}
    /\ ret = Pending
    /\ files = <<>>
    /\ clock = 0
    /\ ncalls = 1
    /\ prev = NoPrev

NextDeflection == ReturnDeflection

SpecDeflection == InitDeflection /\ [][NextDeflection]_vars

\* One crack-width check drawn from the crack-width domain, made again with
\* larger and larger steel stresses
InitCrack ==
    /\ call \in {[op |-> "crack_width_check", inp |-> a] : a \in CrackArgs}
    /\ ret = Pending
    /\ files = <<>>
    /\ clock = 0
    /\ ncalls = 1
    /\ prev = NoPrev

NextCrack ==
    \/ ReturnCrack
    \/ \E f \in CrackStresses : RaiseStress(f)

SpecCrack == InitCrack /\ [][NextCrack]_vars

\* One combined-footing request drawn from the combined domain
InitCombined ==
    /\ call \in {[op |-> "design_combined", inp |-> p, write_reports |-> w,
                  fault |-> fault] :
                    p \in CombinedArgs, w \in BOOLEAN, fault \in CombinedFaults}
    /\ ret = Pending
    /\ files = <<>>
    /\ clock = 0
    /\ ncalls = 1
    /\ prev = NoPrev

NextCombined == \E later \in 0..MaxClock : ReturnCombined(later)

SpecCombined == InitCombined /\ [][NextCombined]_vars

----------------------------------------------------------------------------
(* Properties of the footing engine                                        *)

\* The footing call has returned a result
FootingReturned == call.op = "run_footing_design" /\ ret.status = "ok"

\* The punching call has returned a result
PunchingReturned == call.op = "punching_check_aci" /\ ret.status = "ok"

\* C1: for every input for which run_footing_design returns a result, the
\* returned provided_As_mm2 is at least the returned As_req_mm2.
C1_ProvidedSteelMeetsRequired ==
    FootingReturned => ret.value.provided_As_mm2 >= ret.value.As_req_mm2

\* A result whose grid had to be topped up to reach the required steel
C1_ToppedUp ==
    /\ FootingReturned
    /\ ret.value.n_per_row > footing_sizing(call.inp).n_per_row0
    /\ ret.value.provided_As_mm2 >= ret.value.As_req_mm2

\* C2 as stated: punching_safe equals phiVc_N >= Vu_adj_N evaluated on the
\* phiVc_N and Vu_adj_N fields of the same result.
C2_SafeEqualsFieldComparison ==
    PunchingReturned =>
        (ret.value.results.punching_safe
            <=> (ret.value.results.phiVc_N >= ret.value.results.Vu_adj_N))

\* C2: punching_safe is the comparison of the unrounded capacity and demand,
\* so on the reported fields (rounded to 0.01 N) a safe result has
\* phiVc_N >= Vu_adj_N and a result with phiVc_N > Vu_adj_N is safe; the flag
\* and the fields can disagree only where the two fields are equal.
C2_SafeAgreesWithFieldsUpToRounding ==
    PunchingReturned =>
        /\ ret.value.results.punching_safe
              => ret.value.results.phiVc_N >= ret.value.results.Vu_adj_N
        /\ ret.value.results.phiVc_N > ret.value.results.Vu_adj_N
              => ret.value.results.punching_safe

\* An unsafe result whose reported capacity and demand are equal
C2_UnsafeWithEqualFields ==
    /\ PunchingReturned
    /\ ~ret.value.results.punching_safe
    /\ ret.value.results.phiVc_N = ret.value.results.Vu_adj_N

\* C3: the shear-reinforcement recommendation is populated
\* (needs_shear_reinf true and Av_over_s_mm2_per_mm,
\* recommended_stirrup_dia_mm, recommended_spacing_mm non-null) if and only
\* if punching_safe is false.
C3_RecommendationIffUnsafe ==
    PunchingReturned =>
        ((/\ ret.value.results.needs_shear_reinf
          /\ ret.value.results.Av_over_s_mm2_per_mm # None
          /\ ret.value.results.recommended_stirrup_dia_mm # None
          /\ ret.value.results.recommended_spacing_mm # None)
            <=> ~ret.value.results.punching_safe)

\* An unsafe result on a pad so thin that no stirrup reaches 75 mm spacing,
\* with the fallback recommendation
C3_UnsafeThinPad ==
    /\ PunchingReturned
    /\ ~ret.value.results.punching_safe
    /\ call.inp.pad_depth_mm = 100
    /\ ret.value.results.needs_shear_reinf
    /\ ret.value.results.recommended_stirrup_dia_mm = 10

\* The soil pressure is not positive, or the required area Pu / soil is not
RejectedInput(inp) ==
    \/ inp.soil_allow_kN_per_m2 <= 0
    \/ inp.soil_allow_kN_per_m2 > 0 /\ inp.Pu_kN <= 0

\* C4: run_footing_design raises ValueError whenever soil_allow_kN_per_m2 <= 0
\* or the required area Pu / soil is <= 0; no result is returned and no report
\* file is written.
C4_InvalidInputRaises ==
    [][(/\ call.op = "run_footing_design"
        /\ ret = Pending
        /\ ret' # Pending
        /\ RejectedInput(call.inp))
          => (ret'.status = "ValueError" /\ files' = files)]_vars

\* A rejected request for which reports were asked
C4_RejectedWithReportsAsked ==
    /\ call.op = "run_footing_design"
    /\ RejectedInput(call.inp)
    /\ call.inp.Pu_kN <= 0
    /\ call.write_reports
    /\ ret.status = "ValueError"

\* The fields of the sizing result
SizingFields ==
    {"A_req_m2", "A_used_m2", "A_final_m2", "side_m", "pad_depth_mm",
     "eccentricity_m", "ecc_effect_factor", "As_req_mm2", "provided_As_mm2",
     "n_bars_total", "n_per_row", "n_layers", "bar_dia_mm", "spacing_mm",
     "drawing_params"}

\* What the served footing request returns when no sub-check raises
FaultFree == run_footing_design(call.inp, FALSE, NoFault, 0, <<>>).ret.value

\* C5: when the punching or the crack-width sub-check raises,
\* run_footing_design still returns the full sizing result, the slot of the
\* failed check holds a record with an 'error' key, and the slot of the other
\* check is what it is without the failure.
C5_SubCheckFailureIsolated ==
    (/\ call.op = "run_footing_design"
     /\ ret # Pending
     /\ ~RejectedInput(call.inp)
     /\ call.fault.punching \/ call.fault.crack
     /\ ~(call.write_reports /\ call.fault.io))
    => /\ ret.status = "ok"
       /\ \A f \in SizingFields : ret.value[f] = FaultFree[f]
       /\ IF call.fault.punching
          THEN "error" \in DOMAIN ret.value.punching
          ELSE ret.value.punching = FaultFree.punching
       /\ IF call.fault.crack
          THEN "error" \in DOMAIN ret.value.serviceability
          ELSE ret.value.serviceability = FaultFree.serviceability

\* A result whose punching check raised and whose crack-width check ran
C5_PunchingFailedCrackRan ==
    /\ FootingReturned
    /\ call.fault.punching
    /\ ~call.fault.crack
    /\ "error" \in DOMAIN ret.value.punching
    /\ "results" \in DOMAIN ret.value.serviceability
    /\ ret.value.side_m > 0

\* C6 as stated: report generation is best-effort; when writing the reports
\* fails the failure is caught and the result is returned without
\* report_paths.
C6_ReportFailureCaught ==
    (/\ call.op = "run_footing_design"
     /\ ret # Pending
     /\ ~RejectedInput(call.inp)
     /\ call.write_reports
     /\ call.fault.io)
    => /\ ret.status = "ok"
       /\ "report_paths" \notin DOMAIN ret.value

\* The returned result carries report_paths
HasReportPaths(c, r) ==
    /\ r.status = "ok"
    /\ IF c.op = "design_combined"
       THEN "report_paths" \in DOMAIN r.value.results.engine_results
       ELSE "report_paths" \in DOMAIN r.value

\* C7 as stated: with write_reports=False, run_footing_design and
\* design_combined (in either mode) write no report file and return no
\* report_paths.
C7_NoReportsUnlessRequested ==
    [][(/\ call.op \in {"run_footing_design", "design_combined"}
        /\ ~call.write_reports
        /\ ret = Pending
        /\ ret' # Pending)
          => (files' = files /\ ~HasReportPaths(call, ret'))]_vars

\* C8: two run_footing_design calls with identical inputs and
\* write_reports=False return identical results, whatever happened to the
\* clock and the reports directory in between.
C8_SameInputSameResult ==
    (/\ prev # NoPrev
     /\ call.op = "run_footing_design"
     /\ ~call.write_reports
     /\ ret # Pending
     /\ call.inp = prev.call.inp
     /\ call.fault = prev.call.fault)
    => ret = prev.ret

\* A second report-free result after the clock ran and reports were written
C8_RepeatedAfterChange ==
    /\ prev # NoPrev
    /\ FootingReturned
    /\ ~call.write_reports
    /\ clock > 0
    /\ files # <<>>
    /\ ret.value = prev.ret.value

\* C9 as stated: the returned A_req_m2 equals Pu / soil exactly
\* (A_req_m2 in 1e-6 m2 times soil in kN/m2 is Pu in 1e-6 kN).
C9_RequiredAreaExact ==
    FootingReturned =>
        ret.value.A_req_m2 * call.inp.soil_allow_kN_per_m2 = call.inp.Pu_kN

\* C9: the returned A_req_m2 is Pu / soil rounded to 6 decimals: it is
\* within 0.000001 m2 of the quotient.
C9_RequiredAreaRounded ==
    FootingReturned =>
        Abs(ret.value.A_req_m2 * call.inp.soil_allow_kN_per_m2 - call.inp.Pu_kN)
            < call.inp.soil_allow_kN_per_m2

\* A result whose required area is not a 6-decimal number before rounding
C9_QuotientRounded ==
    /\ FootingReturned
    /\ ret.value.A_req_m2 * call.inp.soil_allow_kN_per_m2 # call.inp.Pu_kN
    /\ ret.value.A_req_m2 > 0

\* The request gives no usable assumed side: absent, zero or negative
NoAssumedSide(inp) == inp.assumed_side_m = None \/ inp.assumed_side_m <= 0

\* C10 as stated: with no assumed side, the returned side_m is the square
\* root of A_req_m2, its square is at least the required area, and A_used_m2
\* equals A_req_m2 (side_m in mm, areas in mm2).
C10_SideIsExactRoot ==
    (FootingReturned /\ NoAssumedSide(call.inp)) =>
        /\ ret.value.side_m * ret.value.side_m = ret.value.A_req_m2
        /\ ret.value.side_m * ret.value.side_m >= ret.value.A_req_m2
        /\ ret.value.A_used_m2 = ret.value.A_req_m2

\* C10: with no assumed side, the returned side_m is sqrt(A_req_m2) rounded
\* to 3 decimals (within 0.001 m of the root, so its square can fall short of
\* the required area by the rounding), and A_used_m2 equals A_req_m2.
C10_SideIsRoundedRoot ==
    (FootingReturned /\ NoAssumedSide(call.inp)) =>
        /\ ret.value.side_m >= 1
        /\ (ret.value.side_m - 1) * (ret.value.side_m - 1) <= ret.value.A_req_m2
        /\ ret.value.A_req_m2 <= (ret.value.side_m + 1) * (ret.value.side_m + 1)
        /\ ret.value.A_used_m2 = ret.value.A_req_m2

\* A result for a zero or negative assumed side whose rounded side squares
\* to less than the required area
C10_RoundedSideFallsShort ==
    /\ FootingReturned
    /\ call.inp.assumed_side_m # None
    /\ call.inp.assumed_side_m <= 0
    /\ ret.value.side_m * ret.value.side_m < ret.value.A_req_m2
    /\ ret.value.A_used_m2 = ret.value.A_req_m2

----------------------------------------------------------------------------
(* Properties of the combined-footing design and of its sub-checks         *)

\* The combined-footing call has returned a result
CombinedReturned == call.op = "design_combined" /\ ret.status = "ok"

\* The punching section of the combined result holds a check, not an error
CombinedPunchingRan ==
    CombinedReturned /\ "results" \in DOMAIN ret.value.results.punching

\* C11: the eccentricity amplification factor is always within [1.0, 1.5].
\* The footing engine reports ecc_effect_factor between 1.0 and 1.5 and
\* A_final_m2 = A_used_m2 x factor (to the rounding of the reported factor and
\* areas); the punching check amplifies the demand by a factor between 1.0
\* and 1.5, so that with alpha_factor 1 the reported Vu_adj_N lies between
\* Vu_N and 1.5 x Vu_N.
C11_AmplificationWithinBounds ==
    CombinedReturned =>
      LET e == ret.value.results.engine_results
          q == ret.value.results.punching
      IN /\ e.ecc_effect_factor \in 1000..1500
         /\ Abs(e.A_final_m2 - MulDivRound(e.A_used_m2, e.ecc_effect_factor, 1000))
               <= e.A_used_m2 \div 2000 + 1
         /\ "results" \in DOMAIN q =>
              /\ eccentricity_amplifier(Max(Abs(q.inputs.eccentricity_x_m),
                                            Abs(q.inputs.eccentricity_y_m)),
                                        q.inputs.col_b_mm, q.inputs.col_d_mm)
                    \in 1000000..1500000
              /\ 10 * q.results.Vu_adj_N >= q.results.Vu_N - 5
              /\ 10 * q.results.Vu_adj_N <= q.results.Vu_N + q.results.Vu_N \div 2 + 5

\* C11 witness: an eccentric pad whose footing factor lies strictly between
\* 1.0 and 1.5 while the punching amplification is capped at 1.5
C11_EccentricPadAmplified ==
    /\ CombinedPunchingRan
    /\ ret.value.results.engine_results.eccentricity_m > 0
    /\ ret.value.results.engine_results.ecc_effect_factor \in 1001..1499
    /\ ret.value.results.engine_results.A_final_m2
          > ret.value.results.engine_results.A_used_m2
    /\ 10 * ret.value.results.punching.results.Vu_adj_N
          = ret.value.results.punching.results.Vu_N
            + ret.value.results.punching.results.Vu_N \div 2

\* The crack-width call has returned a result
CrackReturned == call.op = "crack_width_check" /\ ret.status = "ok"

\* The crack-width call was made again with a strictly larger steel stress
\* and the same spacing and cover, and both calls have returned
CrackRaised ==
    /\ CrackReturned
    /\ prev.call.op = "crack_width_check"
    /\ prev.call.inp.bar_spacing_mm = call.inp.bar_spacing_mm
    /\ prev.call.inp.cover_mm = call.inp.cover_mm
    /\ prev.call.inp.stress_steel_MPa < call.inp.stress_steel_MPa

\* C12: crack_width_check is monotonic in steel stress: for any fixed bar
\* spacing and cover, a strictly larger stress_steel_MPa yields a strictly
\* larger estimated crack width.
C12_WidthStrictlyIncreasesWithStress ==
    CrackRaised =>
      ret.value.results.estimated_mm > prev.ret.value.results.estimated_mm

\* C13: "ok" is exactly estimated_mm <= allowable_mm of the values reported
\* in the same result, with allowable_mm fixed at 0.3 and no hidden
\* tolerance.
C13_OkEqualsFieldComparison ==
    CrackReturned =>
      /\ ret.value.results.allowable_mm = 300000
      /\ ret.value.results.ok
           = (100 * ret.value.results.estimated_mm <= ret.value.results.allowable_mm)

\* C13 (amended): allowable_mm is fixed at 0.3 mm and "ok" compares the width
\* before it is rounded to 4 decimals with it.  On the reported values: ok
\* implies estimated_mm <= allowable_mm, and estimated_mm < allowable_mm
\* implies ok.
C13_OkAgreesWithFieldsUpToRounding ==
    CrackReturned =>
      /\ ret.value.results.allowable_mm = 300000
      /\ ret.value.results.ok
           => 100 * ret.value.results.estimated_mm <= ret.value.results.allowable_mm
      /\ 100 * ret.value.results.estimated_mm < ret.value.results.allowable_mm
           => ret.value.results.ok

\* C13 witness: a width above 0.3 mm by less than 0.00005 mm is reported as
\* 0.3 and is not ok
C13_NotOkWithEqualFields ==
    /\ CrackReturned
    /\ 100 * ret.value.results.estimated_mm = ret.value.results.allowable_mm
    /\ ~ret.value.results.ok

\* C14: design_combined selects mode "single" exactly when Pu_kN is present
\* in params (whatever its numeric value) and "two_column" otherwise, and
\* results.mode reports the selected mode.
C14_ModeSingleIffPuPresent ==
    CombinedReturned =>
      ret.value.results.mode
        = (IF call.inp.Pu_kN # None THEN "single" ELSE "two_column")

\* C15: in two_column mode a call in which P1_kN or P2_kN is missing does not
\* return a sizing result computed from the one supplied load.
C15_TwoColumnNeedsBothLoads ==
    (CombinedReturned /\ ret.value.results.mode = "two_column") =>
      (call.inp.P1_kN # None /\ call.inp.P2_kN # None)

\* C16: every two_column result has total_load_kN = P1 + P2, required_area_m2
\* = total_load_kN / soil_allow_kN_per_m2 and pad_side_m =
\* sqrt(required_area_m2), also when the eccentricities are non-zero.  The
\* area is compared to the resolution of the model's pad side (1e-4 m), the
\* side to its reported rounding.
C16_TwoColumnSizingFormulas ==
    (CombinedReturned /\ ret.value.results.mode = "two_column") =>
      LET r == ret.value.results
      IN /\ r.total_load_kN
              = RoundTo(Or(call.inp.P1_kN, 0) + Or(call.inp.P2_kN, 0), 1000)
         /\ Abs(r.required_area_m2
                  - MulDivRound(r.total_load_kN, 1000, r.soil_allow_kN_per_m2))
               <= r.pad_side_m \div 10 + 1
         /\ Abs(r.pad_side_m - SqrtRound(r.required_area_m2)) <= 1

\* C17: design_combined fails the whole call with an invalid-input error and
\* returns no partial result whenever the supplied soil_allow_kN_per_m2 is
\* zero or negative, in both modes.
C17_NonPositiveSoilRejected ==
    ( /\ call.op = "design_combined"
      /\ ret # Pending
      /\ call.fault = NoFault
      /\ call.inp.soil_allow_kN_per_m2 # None
      /\ call.inp.soil_allow_kN_per_m2 <= 0 ) =>
      ret.status = "ValueError"

\* The params design_combined rejects whatever the sub-checks do: a soil
\* pressure (after its default) or a total load that is not positive
CombinedRejected(p) ==
    \/ (IF p.soil_allow_kN_per_m2 \in {None, 0} THEN 150
        ELSE p.soil_allow_kN_per_m2) <= 0
    \/ (IF p.Pu_kN \notin {None, 0} THEN p.Pu_kN
        ELSE (IF p.P1_kN = None THEN 0 ELSE p.P1_kN)
             + (IF p.P2_kN = None THEN 0 ELSE p.P2_kN)) <= 0

\* C18: a failure raised by a sub-check of design_combined (punching,
\* serviceability, takeoff) never fails the call: the result is returned with
\* its sizing, the failed section holds an "error" field and the other
\* sections hold their results.
C18_CombinedSubCheckFailureIsolated ==
    ( /\ call.op = "design_combined"
      /\ ret # Pending
      /\ ~call.fault.io
      /\ ~CombinedRejected(call.inp) ) =>
      /\ ret.status = "ok"
      /\ {"mode", "total_load_kN", "required_area_m2", "pad_side_m",
          "engine_results"} \subseteq DOMAIN ret.value.results
      /\ IF call.fault.punching
         THEN "error" \in DOMAIN ret.value.results.punching
         ELSE "results" \in DOMAIN ret.value.results.punching
      /\ IF call.fault.crack
         THEN "error" \in DOMAIN ret.value.results.serviceability
         ELSE "results" \in DOMAIN ret.value.results.serviceability
      /\ IF call.fault.takeoff
         THEN "error" \in DOMAIN ret.value.results.takeoff
         ELSE "total_bars" \in DOMAIN ret.value.results.takeoff

\* C18 witness: the takeoff estimate failed, the call returned, and the
\* punching and serviceability sections hold their results
C18_TakeoffFailedOthersRan ==
    /\ CombinedReturned
    /\ call.fault.takeoff
    /\ ret.value.results.takeoff.error = "takeoff_estimate_failed"
    /\ "results" \in DOMAIN ret.value.results.punching
    /\ "results" \in DOMAIN ret.value.results.serviceability

\* C19: for every successful design_combined call the takeoff is derived
\* from the engine's drawing parameters: total_bars = n_per_row x n_layers =
\* engine_results.n_bars_total; concrete_volume_m3 = pad_side_m^2 x
\* pad_depth_mm / 1000 with the engine's pad side and the input pad depth;
\* steel_mass_kg = bar area x total bar length x 7850 (volume and mass to
\* their reported rounding).
C19_TakeoffFromDrawingParams ==
    (CombinedReturned /\ "total_bars" \in DOMAIN ret.value.results.takeoff) =>
      LET r == ret.value.results
          t == ret.value.results.takeoff
          depth_mm == IF call.inp.pad_depth_mm \in {None, 0} THEN 500
                      ELSE call.inp.pad_depth_mm
          \* pi * bar_dia_mm^2 / 4, in 1e-4 mm2
          area_mm2 == MulDivRound(r.engine_results.bar_dia_mm
                                    * r.engine_results.bar_dia_mm, Pi, 40000)
      IN /\ t.total_bars = r.drawing_params.n_per_row * r.drawing_params.n_layers
         /\ t.total_bars = r.engine_results.n_bars_total
         /\ Abs(t.concrete_volume_m3
                  - MulDivRound(r.pad_side_m * r.pad_side_m, depth_mm, 1000000)) <= 1
         /\ Abs(t.steel_mass_kg
                  - MulDivRound(MulDivRound(area_mm2, t.total_steel_length_m, 1000000),
                                STEEL_DENSITY_KG_M3, 100000)) <= 1

\* C19 witness: the takeoff of an eccentric two-column pad whose grid was
\* topped up
C19_TakeoffOfToppedUpPad ==
    /\ CombinedReturned
    /\ ret.value.results.mode = "two_column"
    /\ ret.value.results.engine_results.ecc_effect_factor > 1000
    /\ "total_bars" \in DOMAIN ret.value.results.takeoff
    /\ ret.value.results.takeoff.total_bars = 50
    /\ ret.value.results.takeoff.steel_mass_kg > 0
    /\ ret.value.results.takeoff.concrete_volume_m3 > 0

\* The perimeter multiplier claimed for a location, in 1e-2
C20_Multiplier(loc) == IF loc = "edge" THEN 75 ELSE IF loc = "corner" THEN 50 ELSE 100

\* C20: punching_check_aci computes d_eff = max(10, 0.8 x pad_depth), b0 =
\* 2(b + d) + 4 d_eff and b0_eff = b0 x multiplier (1.0 interior, 0.75 edge,
\* 0.5 corner, any other location string as interior; the location is the one
\* the result reports, i.e. read without regard to case), so 0 < b0_eff <= b0
\* in every result; a 400 x 400 column on a 500 mm pad of 25 MPa concrete
\* gives d_eff = 400, b0 = 3200 and vc = 1.65.
C20_PerimeterAndDepth ==
    PunchingReturned =>
      LET a == call.inp
          r == ret.value.results
          loc == ret.value.inputs.column_location
      IN /\ r.d_eff_mm = Max(1000, 80 * a.pad_depth_mm)
         /\ r.b0_mm = 200 * (a.col_b_mm + a.col_d_mm) + 4 * r.d_eff_mm
         /\ 100 * r.b0_eff_mm = r.b0_mm * C20_Multiplier(loc)
         /\ a.column_location \notin {"edge", "Edge", "corner", "CORNER"}
              => r.b0_eff_mm = r.b0_mm
         /\ 0 < r.b0_eff_mm
         /\ r.b0_eff_mm <= r.b0_mm
         /\ ( a.col_b_mm = 400 /\ a.col_d_mm = 400 /\ a.pad_depth_mm = 500
              /\ a.fc_MPa = 25 ) =>
              (r.d_eff_mm = 40000 /\ r.b0_mm = 320000 /\ r.vc_MPa = 1650000)

\* C20 witness: the 400 x 400 column on a 500 mm pad of 25 MPa concrete at a
\* location that is none of interior, edge and corner, checked on the full
\* perimeter
C20_UnknownLocationScenario ==
    /\ PunchingReturned
    /\ call.inp.col_b_mm = 400
    /\ call.inp.col_d_mm = 400
    /\ call.inp.pad_depth_mm = 500
    /\ call.inp.fc_MPa = 25
    /\ call.inp.column_location = "piled"
    /\ ret.value.results.b0_eff_mm = 320000
    /\ ret.value.results.vc_MPa = 1650000

----------------------------------------------------------------------------
(* Properties of the stirrup recommendation                                *)

\* The punching call has returned an unsafe result
PunchingUnsafe == PunchingReturned /\ ~ret.value.results.punching_safe

\* min(0.75 d_eff, 300) of the reported d_eff_mm, in 1e-3 mm
ReportedCap == Min(MulDivRound(10 * ret.value.results.d_eff_mm, 75, 100), 300000)

\* The spacing of two-legged stirrups of diameter dia that supplies the
\* reported Av_over_s_mm2_per_mm, capped, in 1e-3 mm
ReportedSpacing(dia) ==
    IF ret.value.results.Av_over_s_mm2_per_mm <= 0 THEN ReportedCap
    ELSE Min(MulDivSat(2 * MulDivRound(dia * dia, Pi, 40000), 100000,
                       ret.value.results.Av_over_s_mm2_per_mm), ReportedCap)

\* C21: whenever punching_check_aci is unsafe, 10 mm then 8 mm two-legged
\* stirrups are tried and the first whose spacing min(Asv / (Av/s),
\* min(0.75 d_eff, 300)) is >= 75 mm is chosen, otherwise 10 mm at the capped
\* spacing (a whole number of mm); so every recommended_spacing_mm is <=
\* min(0.75 d_eff, 300) to its rounding of 0.1 mm, and >= 75 mm unless the
\* fallback was taken.
C21_StirrupSelectionRule ==
    PunchingUnsafe =>
      LET r == ret.value.results
      IN /\ r.Av_over_s_mm2_per_mm >= 0
         /\ IF ReportedSpacing(10) >= 75000
            THEN /\ r.recommended_stirrup_dia_mm = 10
                 /\ r.recommended_spacing_mm = RoundTo(ReportedSpacing(10), 100)
            ELSE IF ReportedSpacing(8) >= 75000
            THEN /\ r.recommended_stirrup_dia_mm = 8
                 /\ r.recommended_spacing_mm = RoundTo(ReportedSpacing(8), 100)
            ELSE /\ r.recommended_stirrup_dia_mm = 10
                 /\ r.recommended_spacing_mm = 10 * (ReportedCap \div 1000)
         /\ 100 * r.recommended_spacing_mm <= ReportedCap + 50
         /\ (ReportedSpacing(10) >= 75000 \/ ReportedSpacing(8) >= 75000)
              => r.recommended_spacing_mm >= 750

\* C21 witness: an unsafe check whose 10 mm stirrups are chosen at a spacing
\* strictly between 75 mm and the cap
C21_StirrupBelowCap ==
    /\ PunchingUnsafe
    /\ ret.value.results.recommended_stirrup_dia_mm = 10
    /\ ret.value.results.recommended_spacing_mm > 750
    /\ 100 * ret.value.results.recommended_spacing_mm < ReportedCap - 50

\* C26: whenever punching_check_aci recommends shear reinforcement, the
\* recommended two-legged stirrup supplies at least the required steel:
\* 2 x area(recommended_stirrup_dia_mm) / recommended_spacing_mm >=
\* Av_over_s_mm2_per_mm, also when the fallback recommendation is used.
C26_RecommendedStirrupSuffices ==
    (PunchingReturned /\ ret.value.results.needs_shear_reinf) =>
      LET r == ret.value.results
      IN MulDivRound(2 * MulDivRound(r.recommended_stirrup_dia_mm
                                       * r.recommended_stirrup_dia_mm, Pi, 40000),
                     1000, r.recommended_spacing_mm)
           >= r.Av_over_s_mm2_per_mm

----------------------------------------------------------------------------
(* Properties of the reinforcement grid and of the pad                     *)

\* max(2, floor((side - 2 cover) / spacing)) over the reported spacing and
\* cover, for a pad side of side_mm (in 0.1 mm)
C22_BarsThatFit(side_mm) ==
    Max(2, (Max(10, side_mm - 20 * ret.value.drawing_params.cover_mm))
             \div ret.value.spacing_mm)

\* C22: in every run_footing_design result n_layers = 2, n_per_row >= 2,
\* n_bars_total = n_per_row x n_layers, provided_As_mm2 = n_bars_total x area
\* of one bar, and As_req_mm2 = max(100, A_final_mm2 x 0.003) >= 100; when
\* the grid that fits already provides the required steel, n_per_row =
\* max(2, floor((side_mm - 2 cover) / spacing)), the spacing being the one
\* reported and the side being known to its reported 0.001 m.
C22_GridArithmetic ==
    FootingReturned =>
      LET r == ret.value
          bar_area == MulDivRound(r.bar_dia_mm * r.bar_dia_mm, Pi, 40000)
          lo == C22_BarsThatFit(10 * r.side_m - 5)
          hi == C22_BarsThatFit(10 * r.side_m + 5)
      IN /\ r.n_layers = 2
         /\ r.n_per_row >= 2
         /\ r.n_bars_total = r.n_per_row * r.n_layers
         /\ r.provided_As_mm2 = RoundTo(r.n_bars_total * bar_area, 100)
         /\ r.As_req_mm2 >= 10000
         /\ Abs(r.As_req_mm2 - Max(10000, MulDivRound(r.A_final_m2, 3, 10))) <= 1
         /\ r.n_per_row >= lo
         /\ RoundTo(2 * hi * bar_area, 100) > r.As_req_mm2 => r.n_per_row <= hi

\* C22 witness: a grid of more than two bars per row that needed no top-up
C22_GridWithoutTopUp ==
    /\ FootingReturned
    /\ ret.value.n_per_row > 2
    /\ ret.value.n_per_row = C22_BarsThatFit(10 * ret.value.side_m)
    /\ ret.value.n_per_row = footing_sizing(call.inp).n_per_row0
    /\ ret.value.provided_As_mm2 > ret.value.As_req_mm2

\* C28: the drawing parameters of every run_footing_design result fit the
\* pad: (n_per_row - 1) x spacing_mm <= side_mm - 2 x cover_mm, also after the
\* top-up has increased n_per_row.
C28_BarsFitWithinPad ==
    FootingReturned =>
      LET d == ret.value.drawing_params
      IN (d.n_per_row - 1) * d.spacing_mm <= 10 * (d.pad_side_m - 2 * d.cover_mm)

\* C29: every pad returned by run_footing_design carries the load within the
\* allowable soil pressure, A_used_m2 >= A_req_m2, whether the side was
\* computed or supplied as a positive assumed_side_m.
C29_PadCarriesLoad ==
    FootingReturned => ret.value.A_used_m2 >= ret.value.A_req_m2

----------------------------------------------------------------------------
(* Properties of the deflection check                                      *)

\* The deflection call has returned a result
DeflectionReturned == call.op = "slab_deflection_check" /\ ret.status = "ok"

\* 5 w L^4 / (384 E I) with E = 25000 MPa and I = h^3 / 12, in 1e-5 mm
C23_ShortTerm(L_mm, h, w) ==
    MulDivRound(MulDivRound(MulDivRound(MulDivRound(L_mm * 1000, L_mm, h), L_mm, h),
                            L_mm, h),
                5 * w, 32 * 25000)

\* C23: slab_deflection_check reports long_term = short_term x creep_coeff,
\* limit = span / 250 in mm and serviceable true iff the long-term deflection
\* is <= the limit, the short-term deflection being 5 w L^4 / (384 E I) with E
\* fixed at 25000 MPa and I = thickness^3 / 12 (the three lengths to their
\* reported rounding of 0.001 mm); the Es_MPa argument has no influence on any
\* result field.
C23_DeflectionFormulas ==
    DeflectionReturned =>
      LET a == call.inp
          r == ret.value.results
      IN /\ r.short_term_mm
              = RoundTo(C23_ShortTerm(a.span_m, a.thickness_mm, a.w_kN_per_m), 100)
         /\ Abs(100 * r.long_term_mm - r.short_term_mm * a.creep_coeff)
              <= 50 + a.creep_coeff \div 2
         /\ r.limit_mm = 4 * a.span_m
         /\ r.serviceable => r.long_term_mm <= r.limit_mm
         /\ r.long_term_mm < r.limit_mm => r.serviceable
         /\ \A Es \in DeflectionModuli :
              slab_deflection_check(a.span_m, a.thickness_mm, a.w_kN_per_m, Es,
                                    a.creep_coeff).results = r

\* C23 witness: a slab exactly at its limit, checked with a steel modulus of
\* 210000 MPa, and serviceable
C23_AtLimitWithOtherModulus ==
    /\ DeflectionReturned
    /\ call.inp.Es_MPa = 210000
    /\ ret.value.results.long_term_mm = ret.value.results.limit_mm
    /\ ret.value.results.short_term_mm > 0
    /\ ret.value.results.serviceable

----------------------------------------------------------------------------
(* Properties of the two punching checks of design_combined                *)

\* Both the punching section of design_combined and the punching section of
\* the footing engine inside it hold a check
BothPunchingChecksRan ==
    /\ CombinedPunchingRan
    /\ "results" \in DOMAIN ret.value.results.engine_results.punching

\* C24: the top-level punching section of design_combined comes from a
\* separate invocation whose Vu_N is total_load_kN x 1000 and whose column
\* dimensions are column 1's in two_column mode and the single column's in
\* single mode, the same dimensions that were passed to the footing engine.
C24_PunchingOnEngineColumn ==
    BothPunchingChecksRan =>
      LET p == call.inp
          q == ret.value.results.punching
          e == ret.value.results.engine_results.punching
          single == ret.value.results.mode = "single"
      IN /\ q.results.Vu_N = 1000 * ret.value.results.total_load_kN
         /\ q.inputs.col_b_mm = IF single THEN Or(p.col_b_mm, 300) ELSE Or(p.col1_b_mm, 300)
         /\ q.inputs.col_d_mm = IF single THEN Or(p.col_d_mm, 300) ELSE Or(p.col1_d_mm, 300)
         /\ q.inputs.col_b_mm = e.inputs.col_b_mm
         /\ q.inputs.col_d_mm = e.inputs.col_d_mm

\* C25: the two punching verdicts of a combined result agree:
\* results.punching.results.punching_safe equals
\* results.engine_results.punching.results.punching_safe, for all inputs
\* including eccentric loads, non-default phi and edge or corner columns.
C25_PunchingVerdictsAgree ==
    BothPunchingChecksRan =>
      (ret.value.results.punching.results.punching_safe
         <=> ret.value.results.engine_results.punching.results.punching_safe)

----------------------------------------------------------------------------
(* Properties of the reports directory                                     *)

\* C30: report-writing calls do not interfere: for any two run_footing_design
\* calls with write_reports=True, also within the same clock second, the
\* report_paths returned to each call name files that hold that call's own
\* inputs and results and are not overwritten by the other call.  As a
\* property of every step: the call that returns finds its own inputs and
\* results in the files it is told of, and every report already in the
\* directory is still there with the contents it had.
C30_ReportsNotOverwritten ==
    [][ (call.op = "run_footing_design" /\ call.write_reports /\ ret = Pending
           /\ ret'.status = "ok" /\ "report_paths" \in DOMAIN ret'.value)
        => /\ \A n \in {ret'.value.report_paths.txt, ret'.value.report_paths.html} :
                /\ n \in DOMAIN files'
                /\ files'[n].inputs = call.inp
           /\ \A n \in DOMAIN files :
                n \in DOMAIN files' /\ files'[n] = files[n] ]_vars

====
